---- MODULE Spec2Model ----
(***************************************************************************)
(* Mini Event Manager (apps/web/app/events/page.tsx): the zustand event    *)
(* store with its localStorage persistence, the derived sorted/filtered    *)
(* view, and the react-hook-form submit flow.                              *)
(*                                                                         *)
(* A JavaScript string is modelled as a sequence of one-character strings, *)
(* so that trim, toLowerCase, includes, the date regular expression and    *)
(* localeCompare are computed character by character.                      *)
(***************************************************************************)
EXTENDS Integers, Sequences, FiniteSets

VARIABLES
    engine,         \* the JavaScript engine's Date parser: "lenient" | "strict"
    storage,        \* localStorage item under LOCAL_STORAGE_KEY
    events,         \* store state: events
    search,         \* store state: search
    filteredEvents, \* the memoised derived view of the last render
    nextId,         \* ids handed out so far by generateId, plus one
    form,           \* react-hook-form field values [name, date]
    errors,         \* react-hook-form formState.errors [name, date] ("" = none)
    pc,             \* control position: load (store created, not yet hydrated),
                    \* idle, or inside handleSubmit: validate, onSubmit, reset
    submitter,      \* what started the running submit: none, button, script
    ui              \* "rendered", or "crashed" when an exception escaped

vars == <<engine, storage, events, search, filteredEvents, nextId, form,
          errors, pc, submitter, ui>>

----------------------------------------------------------------------------
(* Bounds *)

MaxIds == 2

----------------------------------------------------------------------------
(* Program constants *)

version == 1

maxLength == 200

----------------------------------------------------------------------------
(* Strings *)

EmptyStr == << >>

IsSpace(c) == c = " "

Digits == {"0", "1", "2", "3", "4", "5", "6", "7", "8", "9"}

DigitVal(c) ==
    CASE c = "0" -> 0 [] c = "1" -> 1 [] c = "2" -> 2 [] c = "3" -> 3
      [] c = "4" -> 4 [] c = "5" -> 5 [] c = "6" -> 6 [] c = "7" -> 7
      [] c = "8" -> 8 [] c = "9" -> 9

\* String.prototype.trim: the white space at both ends is dropped.
RECURSIVE trimStart(_)
trimStart(s) ==
    IF s = EmptyStr THEN s
    ELSE IF IsSpace(Head(s)) THEN trimStart(Tail(s)) ELSE s

RECURSIVE trimEnd(_)
trimEnd(s) ==
    IF s = EmptyStr THEN s
    ELSE IF IsSpace(s[Len(s)]) THEN trimEnd(SubSeq(s, 1, Len(s) - 1)) ELSE s

trim(s) == trimEnd(trimStart(s))

LowerChar(c) ==
    CASE c = "A" -> "a" [] c = "B" -> "b" [] OTHER -> c

\* String.prototype.toLowerCase
toLowerCase(s) == [i \in 1..Len(s) |-> LowerChar(s[i])]

\* String.prototype.includes
includes(s, q) ==
    \E off \in 0..Len(s) :
        /\ off + Len(q) <= Len(s)
        /\ SubSeq(s, off + 1, off + Len(q)) = q

\* Collation rank of the characters a stored date is made of.
CollationOrder == <<" ", "-", "/", "0", "1", "2", "3", "4", "5", "6", "7",
                    "8", "9", "a", "A", "b", "B", "x">>

CharRank(c) == CHOOSE i \in 1..Len(CollationOrder) : CollationOrder[i] = c

\* String.prototype.localeCompare: negative, zero or positive
RECURSIVE localeCompare(_, _)
localeCompare(a, b) ==
    IF a = EmptyStr /\ b = EmptyStr THEN 0
    ELSE IF a = EmptyStr THEN -1
    ELSE IF b = EmptyStr THEN 1
    ELSE IF CharRank(Head(a)) < CharRank(Head(b)) THEN -1
    ELSE IF CharRank(Head(a)) > CharRank(Head(b)) THEN 1
    ELSE localeCompare(Tail(a), Tail(b))

----------------------------------------------------------------------------
(* isValidISODate *)

\* /^\d{4}-\d{2}-\d{2}$/.test(v)
MatchesPattern(v) ==
    /\ Len(v) = 10
    /\ \A i \in {1, 2, 3, 4, 6, 7, 9, 10} : v[i] \in Digits
    /\ v[5] = "-"
    /\ v[8] = "-"

YearOf(v) == DigitVal(v[1]) * 1000 + DigitVal(v[2]) * 100
                + DigitVal(v[3]) * 10 + DigitVal(v[4])

MonthOf(v) == DigitVal(v[6]) * 10 + DigitVal(v[7])

DayOf(v) == DigitVal(v[9]) * 10 + DigitVal(v[10])

IsLeapYear(y) == (y % 4 = 0 /\ y % 100 # 0) \/ y % 400 = 0

DaysInMonth(y, m) ==
    IF m = 2 THEN (IF IsLeapYear(y) THEN 29 ELSE 28)
    ELSE IF m \in {4, 6, 9, 11} THEN 30 ELSE 31

\* !Number.isNaN(new Date(v).getTime()) for a v of the yyyy-mm-dd shape.
\* Every engine rejects a month outside 01-12 and a day outside 01-31; an
\* engine with a lenient ISO parser (V8) takes any day 01-31 and rolls the
\* date over, a strict one rejects a day past the month's end.
DateParses(v, eng) ==
    /\ MonthOf(v) \in 1..12
    /\ DayOf(v) >= 1
    /\ DayOf(v) <= (IF eng = "lenient" THEN 31
                    ELSE DaysInMonth(YearOf(v), MonthOf(v)))

isValidISODate(v, eng) ==
    IF ~MatchesPattern(v) THEN FALSE ELSE DateParses(v, eng)

----------------------------------------------------------------------------
(* register(...) validation rules, in react-hook-form's order: required,    *)
(* maxLength, validate; the first failing rule gives the message.           *)

NoError == ""

ValidateName(v) ==
    IF v = EmptyStr THEN "Event name is required"
    ELSE IF Len(v) > maxLength THEN "Max 200 characters"
    ELSE IF Len(trim(v)) = 0 THEN "Event name cannot be empty"
    ELSE NoError

ValidateDate(v, eng) ==
    IF v = EmptyStr THEN "Date is required"
    ELSE IF isValidISODate(v, eng) THEN NoError
    ELSE "Invalid date"

----------------------------------------------------------------------------
(* The store: generateId, addEvent, deleteEvent *)

\* generateId keyed on a clock that has not advanced
generateIdSameTick(n) == 1

\* generateId: crypto.randomUUID() (or the timestamp/random fallback) is
\* taken at its contract, a value never handed out before: the n-th call
\* returns the token n.
generateId(n) == n

\* addEvent storing the name as given
addEventUntrimmed(evs, id, name, date) ==
    Append(evs, [id |-> id, name |-> name, date |-> date])

addEvent(evs, id, name, date) ==
    Append(evs, [id |-> id, name |-> trim(name), date |-> date])

\* deleteEvent dropping the entry at the position the id names
deleteEventAtIndex(evs, id) ==
    IF id \in 1..Len(evs)
      THEN SubSeq(evs, 1, id - 1) \o SubSeq(evs, id + 1, Len(evs))
      ELSE evs

deleteEvent(evs, id) == SelectSeq(evs, LAMBDA e : e.id # id)

----------------------------------------------------------------------------
(* persist middleware: partialize, JSON envelope, hydration *)

\* A JSON object is the sequence of its members <<key, value>>.
HasMember(obj, key) == \E i \in 1..Len(obj) : obj[i][1] = key

Member(obj, key) ==
    LET i == CHOOSE j \in 1..Len(obj) : obj[j][1] = key IN obj[i][2]

\* partialize handing the whole state to the storage
partializeWholeState(evs, q) == [events |-> evs, search |-> q]

partialize(evs, q) == [events |-> evs]

StringifyEvent(e) == << <<"id", e.id>>, <<"name", e.name>>, <<"date", e.date>> >>

StringifyState(p) ==
    (IF "events" \in DOMAIN p
        THEN << <<"events", [i \in 1..Len(p.events) |-> StringifyEvent(p.events[i])]>> >>
        ELSE << >>)
    \o (IF "search" \in DOMAIN p THEN << <<"search", p.search>> >> ELSE << >>)

ParseEvent(obj) ==
    [id |-> Member(obj, "id"), name |-> Member(obj, "name"),
     date |-> Member(obj, "date")]

ParseEvents(arr) == [i \in 1..Len(arr) |-> ParseEvent(arr[i])]

\* storage.setItem(name, JSON.stringify({state: partialize(state), version}))
setItem(evs, q) ==
    [kind |-> "json", version |-> version,
     state |-> StringifyState(partialize(evs, q))]

Absent == [kind |-> "absent", version |-> 0, state |-> << >>]

Unparseable == [kind |-> "unparseable", version |-> 0, state |-> << >>]

\* An envelope left under the key by another version of the schema.
OtherVersion ==
    [kind |-> "json", version |-> version + 1,
     state |-> << <<"events", << << <<"id", 0>>, <<"name", <<"b">> >>,
                                    <<"date", <<"2", "0", "2", "4", "-", "0", "1", "-", "0", "1">> >> >> >> >> >>]

InitialStorages == {Absent, Unparseable, OtherVersion}

\* The store's initial state, lines 36-37.
InitialState == [events |-> << >>, search |-> EmptyStr]

\* hydrate without the version check
hydrateAnyVersion(st, current) ==
    IF st.kind = "absent" THEN [state |-> current, uncaught |-> FALSE]
    ELSE IF st.kind = "unparseable" THEN [state |-> current, uncaught |-> FALSE]
    ELSE [state |->
            [events |-> IF HasMember(st.state, "events")
                          THEN ParseEvents(Member(st.state, "events"))
                          ELSE current.events,
             search |-> IF HasMember(st.state, "search")
                          THEN Member(st.state, "search")
                          ELSE current.search],
          uncaught |-> FALSE]

\* persist's hydrate: getItem + JSON.parse, the version check (no migrate
\* function is given), then merge = {...current, ...persisted}. A throw of
\* JSON.parse is caught by the middleware, and the state stays as it was.
hydrate(st, current) ==
    IF st.kind = "absent" THEN [state |-> current, uncaught |-> FALSE]
    ELSE IF st.kind = "unparseable" THEN [state |-> current, uncaught |-> FALSE]
    ELSE IF st.version # version THEN [state |-> current, uncaught |-> FALSE]
    ELSE [state |->
            [events |-> IF HasMember(st.state, "events")
                          THEN ParseEvents(Member(st.state, "events"))
                          ELSE current.events,
             search |-> IF HasMember(st.state, "search")
                          THEN Member(st.state, "search")
                          ELSE current.search],
          uncaught |-> FALSE]

----------------------------------------------------------------------------
(* The derived view, lines 79-84 *)

\* an insertion that puts x before the entries that compare equal to it
InsertBeforeEqual(sorted, x) ==
    LET k == Cardinality({i \in 1..Len(sorted) :
                            localeCompare(sorted[i].date, x.date) < 0})
    IN  SubSeq(sorted, 1, k) \o <<x>> \o SubSeq(sorted, k + 1, Len(sorted))

\* Array.prototype.sort with (a, b) => a.date.localeCompare(b.date): stable.
InsertStable(sorted, x) ==
    LET k == Cardinality({i \in 1..Len(sorted) :
                            localeCompare(sorted[i].date, x.date) <= 0})
    IN  SubSeq(sorted, 1, k) \o <<x>> \o SubSeq(sorted, k + 1, Len(sorted))

RECURSIVE sort(_)
sort(arr) ==
    IF arr = << >> THEN << >>
    ELSE InsertStable(sort(SubSeq(arr, 1, Len(arr) - 1)), arr[Len(arr)])

\* the filter comparing the name as stored with the lowered query
FilteredEventsCaseSensitive(evs, s) ==
    LET q == toLowerCase(trim(s))
        base == sort(evs)
    IN  IF q = EmptyStr THEN base
        ELSE SelectSeq(base, LAMBDA e : includes(e.name, q))

FilteredEvents(evs, s) ==
    LET q == toLowerCase(trim(s))
        base == sort(evs)
    IN  IF q = EmptyStr THEN base
        ELSE SelectSeq(base, LAMBDA e : includes(toLowerCase(e.name), q))

\* One render: the memo is recomputed from a spread copy of events, so the
\* store's array is the one handed in.
Render(evs, s) == [events |-> evs, filteredEvents |-> FilteredEvents(evs, s)]

----------------------------------------------------------------------------
(* Inputs *)

LongName == [i \in 1..(maxLength + 1) |-> "x"]

NameInputs == {EmptyStr, <<" ">>, <<" ", "A", "b", " ">>, <<"b">>, LongName}

D20240101 == <<"2", "0", "2", "4", "-", "0", "1", "-", "0", "1">>
D20250101 == <<"2", "0", "2", "5", "-", "0", "1", "-", "0", "1">>
D20250230 == <<"2", "0", "2", "5", "-", "0", "2", "-", "3", "0">>
D20251340 == <<"2", "0", "2", "5", "-", "1", "3", "-", "4", "0">>
DSlashes  == <<"1", "/", "1", "/", "2", "0", "2", "5">>

\* What the date field can hold: a date control hands over "" or a date, a
\* browser that falls back to a text field hands over whatever was typed.
DateInputs == {EmptyStr, D20240101, D20250101, D20250230, D20251340, DSlashes}

SearchInputs == {EmptyStr, <<" ", "a">>, <<"B">>}

----------------------------------------------------------------------------
(* State machine *)

DefaultValues == [name |-> EmptyStr, date |-> EmptyStr]

NoErrors == [name |-> NoError, date |-> NoError]

isSubmitting == pc \in {"validate", "onSubmit", "reset"}

\* line 97
canSubmit == (trim(form.name) # EmptyStr /\ form.date # EmptyStr) /\ ~isSubmitting

\* Page load, second half: the store created with its initial state is
\* hydrated from storage, the form starts from defaultValues, the page renders.
Load ==
    /\ ui = "rendered"
    /\ pc = "load"
    /\ LET h == hydrate(storage, [events |-> events, search |-> search])
           r == Render(h.state.events, h.state.search)
       IN  /\ events' = r.events
           /\ search' = h.state.search
           /\ filteredEvents' = r.filteredEvents
           /\ ui' = IF h.uncaught THEN "crashed" ELSE "rendered"
    /\ pc' = "idle"
    /\ UNCHANGED <<engine, storage, nextId, form, errors, submitter>>

\* The store has just been created with its initial state, lines 36-37, and
\* the form with its defaultValues, line 74; the key holds whatever an earlier
\* run of the page, or something else, left there.
Init ==
    /\ engine \in {"lenient", "strict"}
    /\ storage \in InitialStorages
    /\ nextId = 1
    /\ events = InitialState.events
    /\ search = InitialState.search
    /\ filteredEvents = << >>
    /\ ui = "rendered"
    /\ form = DefaultValues
    /\ errors = NoErrors
    /\ pc = "load"
    /\ submitter = "none"

Ready == ui = "rendered" /\ pc = "idle"

\* The user reloads the page (or opens it in a later session): the memory
\* state is gone, the module is evaluated again and the store is created with
\* its initial state, lines 36-37; the form is created with defaultValues.
Reload ==
    /\ Ready
    /\ events' = InitialState.events
    /\ search' = InitialState.search
    /\ filteredEvents' = << >>
    /\ form' = DefaultValues
    /\ errors' = NoErrors
    /\ pc' = "load"
    /\ UNCHANGED <<engine, storage, nextId, submitter, ui>>

\* setSearch, line 38; every set() of the store is followed by setItem().
SetSearch(q) ==
    /\ Ready
    /\ q # search
    /\ LET r == Render(events, q)
       IN  /\ events' = r.events
           /\ filteredEvents' = r.filteredEvents
           /\ search' = q
           /\ storage' = setItem(r.events, q)
    /\ UNCHANGED <<engine, nextId, form, errors, pc, submitter, ui>>

\* deleteEvent(id), lines 43-46, for any id handed out so far.
DeleteEvent(id) ==
    /\ Ready
    /\ LET r == Render(deleteEvent(events, id), search)
       IN  /\ events' = r.events
           /\ filteredEvents' = r.filteredEvents
           /\ storage' = setItem(deleteEvent(events, id), search)
    /\ UNCHANGED <<engine, search, nextId, form, errors, pc, submitter, ui>>

\* The user edits the name field; mode "onChange" validates the field.
ChangeName(v) ==
    /\ Ready
    /\ v # form.name
    /\ form' = [form EXCEPT !.name = v]
    /\ errors' = [errors EXCEPT !.name = ValidateName(v)]
    /\ UNCHANGED <<engine, storage, events, search, filteredEvents, nextId,
                   pc, submitter, ui>>

ChangeDate(v) ==
    /\ Ready
    /\ v # form.date
    /\ form' = [form EXCEPT !.date = v]
    /\ errors' = [errors EXCEPT !.date = ValidateDate(v, engine)]
    /\ UNCHANGED <<engine, storage, events, search, filteredEvents, nextId,
                   pc, submitter, ui>>

\* A submit event reaches handleSubmit: from the submit button, which is
\* disabled unless canSubmit, or from form.requestSubmit().
SubmitAttempt(by) ==
    /\ Ready
    /\ nextId <= MaxIds
    /\ by = "button" => canSubmit
    /\ pc' = "validate"
    /\ submitter' = by
    /\ UNCHANGED <<engine, storage, events, search, filteredEvents, nextId,
                   form, errors, ui>>

\* handleSubmit calling onSubmit whatever the rules say
HandleSubmitUnvalidated ==
    /\ ui = "rendered"
    /\ pc = "validate"
    /\ errors' = NoErrors
    /\ pc' = "onSubmit"
    /\ UNCHANGED <<engine, storage, events, search, filteredEvents, nextId,
                   form, submitter, ui>>

\* handleSubmit validates every field, then either reports the errors or
\* clears them and calls onSubmit.
HandleSubmit ==
    /\ ui = "rendered"
    /\ pc = "validate"
    /\ LET found == [name |-> ValidateName(form.name),
                     date |-> ValidateDate(form.date, engine)]
       IN  IF found = NoErrors
             THEN /\ errors' = NoErrors
                  /\ pc' = "onSubmit"
                  /\ submitter' = submitter
             ELSE /\ errors' = found
                  /\ pc' = "idle"
                  /\ submitter' = "none"
    /\ UNCHANGED <<engine, storage, events, search, filteredEvents, nextId,
                   form, ui>>

\* onSubmit, lines 88-90
OnSubmit ==
    /\ ui = "rendered"
    /\ pc = "onSubmit"
    /\ LET trimmed == trim(form.name)
       IN  IF trimmed = EmptyStr \/ form.date = EmptyStr
             THEN /\ pc' = "idle"
                  /\ submitter' = "none"
                  /\ UNCHANGED <<storage, events, filteredEvents, nextId>>
             ELSE LET added == addEvent(events, generateId(nextId), trimmed, form.date)
                      r == Render(added, search)
                  IN  /\ events' = r.events
                      /\ filteredEvents' = r.filteredEvents
                      /\ storage' = setItem(added, search)
                      /\ nextId' = nextId + 1
                      /\ pc' = "reset"
                      /\ submitter' = submitter
    /\ UNCHANGED <<engine, search, form, errors, ui>>

\* a reset that clears the name field alone
ResetNameOnly ==
    /\ ui = "rendered"
    /\ pc = "reset"
    /\ form' = [form EXCEPT !.name = EmptyStr]
    /\ errors' = NoErrors
    /\ pc' = "idle"
    /\ submitter' = "none"
    /\ UNCHANGED <<engine, storage, events, search, filteredEvents, nextId,
                   ui>>

\* reset(), line 91, and the end of handleSubmit
Reset ==
    /\ ui = "rendered"
    /\ pc = "reset"
    /\ form' = DefaultValues
    /\ errors' = NoErrors
    /\ pc' = "idle"
    /\ submitter' = "none"
    /\ UNCHANGED <<engine, storage, events, search, filteredEvents, nextId,
                   ui>>

Next ==
    \/ Reload
    \/ Load
    \/ \E q \in SearchInputs : SetSearch(q)
    \/ \E id \in 1..(nextId - 1) : DeleteEvent(id)
    \/ \E v \in NameInputs : ChangeName(v)
    \/ \E v \in DateInputs : ChangeDate(v)
    \/ \E by \in {"button", "script"} : SubmitAttempt(by)
    \/ HandleSubmit
    \/ OnSubmit
    \/ Reset

Spec == Init /\ [][Next]_vars

----------------------------------------------------------------------------
(* Vocabulary of the properties, stated without the operators of the model *)

IsBlankAt(s, i) == s[i] = " "

\* t is s without the white space at its two ends
IsTrimOf(t, s) ==
    /\ t # EmptyStr => (t[1] # " " /\ t[Len(t)] # " ")
    /\ \E k \in 0..(Len(s) - Len(t)) :
          /\ \A i \in 1..k : IsBlankAt(s, i)
          /\ \A i \in 1..Len(t) : s[k + i] = t[i]
          /\ \A i \in (k + Len(t) + 1)..Len(s) : IsBlankAt(s, i)

IsBlank(s) == \A i \in 1..Len(s) : IsBlankAt(s, i)

SameLetter(c, d) ==
    \/ c = d
    \/ {c, d} = {"a", "A"}
    \/ {c, d} = {"b", "B"}

\* name contains q as a substring, letter case ignored
ContainsIgnoringCase(name, q) ==
    \E off \in 0..Len(name) :
        /\ off + Len(q) <= Len(name)
        /\ \A k \in 1..Len(q) : SameLetter(name[off + k], q[k])

IsDigit(c) == c \in {"0", "1", "2", "3", "4", "5", "6", "7", "8", "9"}

\* d has the yyyy-mm-dd syntax
IsYMDSyntax(d) ==
    /\ Len(d) = 10
    /\ d[5] = "-" /\ d[8] = "-"
    /\ \A i \in (1..10) \ {5, 8} : IsDigit(d[i])

\* yyyymmdd as a number
DateKey(d) == YearOf(d) * 10000 + MonthOf(d) * 100 + DayOf(d)

\* d of the yyyy-mm-dd syntax names a day of the calendar
IsCalendarDate(d) ==
    /\ MonthOf(d) >= 1 /\ MonthOf(d) <= 12
    /\ DayOf(d) >= 1
    /\ DayOf(d) <= (CASE MonthOf(d) \in {1, 3, 5, 7, 8, 10, 12} -> 31
                      [] MonthOf(d) \in {4, 6, 9, 11} -> 30
                      [] OTHER -> IF YearOf(d) % 4 = 0
                                     /\ (YearOf(d) % 100 # 0 \/ YearOf(d) % 400 = 0)
                                    THEN 29 ELSE 28)

IdsOf(evs) == {evs[i].id : i \in 1..Len(evs)}

PositionOf(evs, id) == CHOOSE i \in 1..Len(evs) : evs[i].id = id

----------------------------------------------------------------------------
(* C1 *)

\* C1: in every store state and for every (name, date) with name non-empty
\* after trimming and date non-empty, addEvent makes the collection one
\* longer, appends last an entry whose name is the trimmed input and whose
\* date is the input, and keeps every earlier event with its id, name, date
\* and position; and the entry the submit flow has just added is that one.
C1_AddEventAppends ==
    /\ \A n \in NameInputs, d \in DateInputs :
          (~IsBlank(n) /\ d # EmptyStr) =>
              LET after == addEvent(events, generateId(nextId), n, d)
              IN  /\ Len(after) = Len(events) + 1
                  /\ IsTrimOf(after[Len(after)].name, n)
                  /\ after[Len(after)].date = d
                  /\ \A i \in 1..Len(events) : after[i] = events[i]
    /\ pc = "reset" =>
          /\ events # << >>
          /\ IsTrimOf(events[Len(events)].name, form.name)
          /\ events[Len(events)].date = form.date

\* addEvent has just appended a second event whose name had to be trimmed
C1_Witness ==
    /\ pc = "reset"
    /\ Len(events) = 2
    /\ events[2].name # form.name
    /\ events[2].date = form.date

----------------------------------------------------------------------------
(* C2 *)

\* C2: in every reachable state and for every id, deleteEvent(id) removes at
\* most one entry, the one whose id matches, and leaves the other entries and
\* their order as they were; when no stored event has that id the collection
\* is unchanged, and so a second deleteEvent(id) changes nothing.
C2_DeleteRemovesAtMostOne ==
    \A id \in 0..(MaxIds + 1) :
        LET after == deleteEvent(events, id)
        IN  /\ Len(after) >= Len(events) - 1
            /\ id \notin IdsOf(events) => after = events
            /\ id \in IdsOf(events) =>
                  LET k == PositionOf(events, id)
                  IN  after = SubSeq(events, 1, k - 1)
                                \o SubSeq(events, k + 1, Len(events))
            /\ id \notin IdsOf(after)
            /\ deleteEvent(after, id) = after

\* an id handed out earlier is gone from a collection that still holds an event
C2_Witness ==
    /\ pc = "idle"
    /\ Len(events) = 1
    /\ \E id \in 1..(nextId - 1) : id \notin IdsOf(events)

----------------------------------------------------------------------------
(* C3 *)

\* C3: in every reachable state the derived view is sorted by date ascending,
\* events with equal dates appear in the view in their stored order, and the
\* stored collection is still in insertion order (ids are handed out in
\* increasing order, so: in increasing id order).
C3_ViewSortedStable ==
    /\ \A i, j \in 1..Len(filteredEvents) :
          i < j =>
            /\ DateKey(filteredEvents[i].date) <= DateKey(filteredEvents[j].date)
            /\ filteredEvents[i].date = filteredEvents[j].date =>
                  PositionOf(events, filteredEvents[i].id)
                    < PositionOf(events, filteredEvents[j].id)
    /\ \A i, j \in 1..Len(events) : i < j => events[i].id < events[j].id

\* the later event was inserted first: the view differs from the stored order
C3_Witness ==
    /\ Len(filteredEvents) = 2
    /\ Len(events) = 2
    /\ filteredEvents[1] = events[2]
    /\ filteredEvents[2] = events[1]

----------------------------------------------------------------------------
(* C4 *)

\* the search text without the white space at its two ends
TrimmedSearch ==
    CHOOSE t \in {SubSeq(search, a, b) : a \in 1..(Len(search) + 1), b \in 0..Len(search)} :
        IsTrimOf(t, search)

InView(e) == \E i \in 1..Len(filteredEvents) : filteredEvents[i] = e

\* C4 as claimed: the view holds exactly the events whose name contains the
\* search text as set by setSearch, letter case ignored, and every event when
\* the search text is empty.
C4_Original ==
    /\ \A i \in 1..Len(events) :
          InView(events[i]) <=> ContainsIgnoringCase(events[i].name, search)
    /\ search = EmptyStr => Len(filteredEvents) = Len(events)

\* C4 (amended): the view holds exactly the events whose name contains the
\* trimmed search text as a substring, letter case ignored, and nothing else;
\* when the trimmed search text is empty the view holds every event.
C4_ViewFiltersByTrimmedSearch ==
    /\ \A i \in 1..Len(events) :
          InView(events[i]) <=> ContainsIgnoringCase(events[i].name, TrimmedSearch)
    /\ \A i \in 1..Len(filteredEvents) : filteredEvents[i].id \in IdsOf(events)
    /\ Len(filteredEvents) <= Len(events)
    /\ TrimmedSearch = EmptyStr => Len(filteredEvents) = Len(events)

\* a search in another letter case, with white space around it, keeps one of
\* two events
C4_Witness ==
    /\ search = <<" ", "a">>
    /\ Len(events) = 2
    /\ Len(filteredEvents) = 1
    /\ filteredEvents[1].name = <<"A", "b">>

----------------------------------------------------------------------------
(* C5 *)

\* C5: in every reachable state every stored event has an id no other stored
\* event has, a name that is non-empty, has no white space at its ends and is
\* at most 200 characters long, and a date of the yyyy-mm-dd syntax.
C5_StoredEventsWellFormed ==
    /\ \A i, j \in 1..Len(events) : i # j => events[i].id # events[j].id
    /\ \A i \in 1..Len(events) :
          /\ events[i].name # EmptyStr
          /\ IsTrimOf(events[i].name, events[i].name)
          /\ Len(events[i].name) <= 200
          /\ IsYMDSyntax(events[i].date)

\* two submissions went through and both events are stored, the first one
\* entered with white space around its name
C5_Witness ==
    /\ pc = "idle"
    /\ Len(events) = 2
    /\ events[1].name = <<"A", "b">>

----------------------------------------------------------------------------
(* C6 *)

\* the event list a version-1 envelope holds, read member by member
StoredEvents(st) ==
    IF st.kind = "json" /\ st.version = 1
      THEN LET arr == st.state[1][2]
           IN  [i \in 1..Len(arr) |->
                  [id |-> arr[i][1][2], name |-> arr[i][2][2], date |-> arr[i][3][2]]]
      ELSE << >>

\* C6: when the page is reloaded the storage holds exactly the in-memory event
\* list (same ids, names, dates, same order); the load that follows yields
\* that list and an empty search text; and every write of the storage is an
\* envelope of version 1 whose state has the events member alone.
C6_ReloadRestoresEvents ==
    /\ [][(pc = "idle" /\ pc' = "load") =>
            (storage' = storage /\ StoredEvents(storage) = events)]_vars
    /\ [][pc = "load" =>
            (/\ events' = StoredEvents(storage)
             /\ search' = EmptyStr
             /\ storage' = storage)]_vars
    /\ [][storage' # storage =>
            (/\ storage'.kind = "json"
             /\ storage'.version = 1
             /\ Len(storage'.state) = 1
             /\ storage'.state[1][1] = "events"
             /\ StoredEvents(storage') = events')]_vars

\* a reload is under way with two events in the storage
C6_Witness ==
    /\ pc = "load"
    /\ nextId > 2
    /\ Len(StoredEvents(storage)) = 2

----------------------------------------------------------------------------
(* C7 *)

\* C7: validation lets a submission through only if the date has the
\* yyyy-mm-dd syntax and names a day of the calendar, and the name is not
\* blank.
C7_AcceptsOnlyCalendarDates ==
    pc \in {"onSubmit", "reset"} =>
        /\ ~IsBlank(form.name)
        /\ IsYMDSyntax(form.date)
        /\ IsCalendarDate(form.date)

----------------------------------------------------------------------------
(* C8 *)

----------------------------------------------------------------------------
(* C9 *)

\* some validation rule fails for the values in the form
RuleFails ==
    \/ IsBlank(form.name)
    \/ Len(form.name) > 200
    \/ form.date = EmptyStr
    \/ ~isValidISODate(form.date, engine)

\* C9: a submit attempt in which a rule fails leaves the events collection,
\* the storage and the id source unchanged, and returns the form to idle with
\* the field values kept and an error shown; a submit attempt in which no
\* rule fails goes on to onSubmit whatever happened before; and an idle form
\* whose values pass the rules shows no error and can be submitted.
C9_FailedSubmitChangesNothing ==
    /\ [][(pc = "validate" /\ RuleFails) =>
            (/\ events' = events
             /\ storage' = storage
             /\ nextId' = nextId
             /\ form' = form
             /\ errors' # NoErrors
             /\ pc' = "idle"
             /\ ui' = "rendered")]_vars
    /\ [][(pc = "validate" /\ ~RuleFails) => pc' = "onSubmit"]_vars
    /\ []((pc = "idle" /\ ~RuleFails) => (errors = NoErrors /\ canSubmit))

\* a submit attempt with a blank name is being validated, an event being stored
C9_Witness ==
    /\ pc = "validate"
    /\ form.name = <<" ">>
    /\ form.date # EmptyStr
    /\ events # << >>

----------------------------------------------------------------------------
(* C10 *)

\* C10: a submit whose values pass every rule calls addEvent once, with the
\* trimmed name and the date as entered, the form still filled; only the step
\* after that clears both fields and returns to idle; no other step of the
\* page adds an event; a submit started from the button found the trimmed
\* name and the date non-empty, and the button is disabled otherwise.
C10_SubmitAddsThenClears ==
    /\ [][(pc = "validate" /\ ~RuleFails) =>
            (pc' = "onSubmit" /\ events' = events /\ form' = form)]_vars
    /\ [][pc = "onSubmit" =>
            (/\ Len(events') = Len(events) + 1
             /\ \A i \in 1..Len(events) : events'[i] = events[i]
             /\ IsTrimOf(events'[Len(events')].name, form.name)
             /\ events'[Len(events')].date = form.date
             /\ form' = form
             /\ pc' = "reset")]_vars
    /\ [][pc = "reset" =>
            (/\ events' = events
             /\ form' = [name |-> EmptyStr, date |-> EmptyStr]
             /\ pc' = "idle")]_vars
    /\ [][Len(events') > Len(events) => pc \in {"onSubmit", "load"}]_vars
    /\ [](submitter = "button" => (~IsBlank(form.name) /\ form.date # EmptyStr))
    /\ []((IsBlank(form.name) \/ form.date = EmptyStr) => ~canSubmit)

\* a submit from the button has added a second event and is about to clear a
\* form whose name had white space around it
C10_Witness ==
    /\ pc = "reset"
    /\ submitter = "button"
    /\ form.name = <<" ", "A", "b", " ">>
    /\ Len(events) = 2
    /\ events[2].name = <<"A", "b">>

====
